---- MODULE Spec2Model ----
(***************************************************************************)
(* Model of src/app.py: the two JSON endpoints POST /api/questions         *)
(* (generate_questions) and POST /api/reconstruct (reconstruct), the       *)
(* shared scope gate scope_check_or_out, and the external completion       *)
(* service they call (client.responses.create).                            *)
(*                                                                         *)
(* A Python str is a sequence of one-character strings, so that strip()    *)
(* and the rendering of context lines are computed rather than assumed.    *)
(* A JSON scalar is a record [t, s, n, b]: t is the JSON type, s the       *)
(* characters of a string, n a number (or the length of a list), b a       *)
(* boolean.  t = "missing" stands for a key that is absent from its        *)
(* object.  A JSON value that may be a mapping has a fifth field e, the    *)
(* mapping's entries in insertion order.                                   *)
(***************************************************************************)
EXTENDS Integers, Sequences, FiniteSets, TLC

\* ------------------------------------------------------------------ bounds
\* Number of request slots that may be handled at the same time.
NumRequests == 2
\* Largest number of entries of an "answers" mapping a client sends.
MaxAnswers == 2

Requests == 1..NumRequests

\* --------------------------------------------------------- JSON and Python
Whitespace == {" ", "\t"}

JMissing == [t |-> "missing", s |-> <<>>, n |-> 0, b |-> FALSE]
JNull == [t |-> "null", s |-> <<>>, n |-> 0, b |-> FALSE]
JBool(x) == [t |-> "bool", s |-> <<>>, n |-> 0, b |-> x]
JNum(x) == [t |-> "num", s |-> <<>>, n |-> x, b |-> FALSE]
JStr(x) == [t |-> "str", s |-> x, n |-> 0, b |-> FALSE]
JList(len) == [t |-> "list", s |-> <<>>, n |-> len, b |-> FALSE]

\* A value that may be a mapping: the scalar v, or the mapping with entries e.
Plain(v) == [t |-> v.t, s |-> v.s, n |-> v.n, b |-> v.b, e |-> <<>>]
JDict(entries) == [t |-> "dict", s |-> <<>>, n |-> 0, b |-> FALSE, e |-> entries]

\* Python truth value of a JSON value (None, False, 0, "", [] and {} are falsy).
Truthy(v) ==
    CASE v.t = "missing" -> FALSE
      [] v.t = "null" -> FALSE
      [] v.t = "bool" -> v.b
      [] v.t = "num" -> v.n # 0
      [] v.t = "str" -> v.s # <<>>
      [] v.t = "list" -> v.n > 0
      [] v.t = "dict" -> v.e # <<>>
      [] OTHER -> FALSE

\* dict.get(key, default): the value under the key, default when it is absent.
Get(v, default) == IF v.t = "missing" THEN default ELSE v

\* Python's "x or y".
Or(x, y) == IF Truthy(x) THEN x ELSE y

RECURSIVE LStrip(_)
LStrip(s) == IF s # <<>> /\ Head(s) \in Whitespace THEN LStrip(Tail(s)) ELSE s

RECURSIVE RStrip(_)
RStrip(s) ==
    IF s # <<>> /\ s[Len(s)] \in Whitespace THEN RStrip(SubSeq(s, 1, Len(s) - 1)) ELSE s

\* Variant: the text is taken as sent, without strip() (breaks C1).
StripNothing(s) == s

\* str.strip()
Strip(s) == RStrip(LStrip(s))

Digits == <<"0", "1", "2", "3", "4", "5", "6", "7", "8", "9">>

RECURSIVE NumStr(_)
NumStr(k) ==
    IF k < 10 THEN <<Digits[k + 1]>> ELSE NumStr(k \div 10) \o <<Digits[(k % 10) + 1]>>

\* str(a) of a JSON scalar.
PyStr(a) ==
    CASE a.t = "str" -> a.s
      [] a.t = "num" -> NumStr(a.n)
      [] a.t = "bool" -> IF a.b THEN <<"T", "r", "u", "e">> ELSE <<"F", "a", "l", "s", "e">>
      [] a.t = "list" -> <<"[", "]">>
      [] OTHER -> <<"N", "o", "n", "e">>

\* sep.join(lines)
RECURSIVE Join(_, _)
Join(sep, lines) ==
    IF lines = <<>> THEN <<>>
    ELSE IF Len(lines) = 1 THEN lines[1]
    ELSE lines[1] \o sep \o Join(sep, Tail(lines))

\* ------------------------------------------------------ schema constants
MinQuestions == 3
MaxQuestions == 6
NumHypotheses == 3
MinBiasChecks == 2
MaxBiasChecks == 4
MinUncertaintyNotes == 1
MaxUncertaintyNotes == 3

\* ------------------------------------------------------------- responses
\* A JSON object returned by the question or the reconstruction call, or sent
\* as the body of a 200 response.  keys is the set of keys the object has.
NoBody ==
    [isObject |-> FALSE, keys |-> {}, questions |-> <<>>, hypotheses |-> <<>>,
     bias_checks |-> <<>>, uncertainty_notes |-> <<>>,
     user_correction_prompt |-> <<>>, one_reflection_prompt |-> <<>>]

\* (jsonify(...), status): error is the "error" field, message and how_to_fix
\* the fields of the out-of-scope payload, body the object of a 200 response.
Response(status, error, message, how_to_fix, body) ==
    [status |-> status, error |-> error, message |-> message,
     how_to_fix |-> how_to_fix, body |-> body]

NoResponse == Response(0, "", JMissing, JMissing, NoBody)

\* An exception that leaves the view function: the framework answers 500.
ServerError == Response(500, "", JMissing, JMissing, NoBody)

BadRequest(error) == Response(400, error, JMissing, JMissing, NoBody)

Ok(body) == Response(200, "", JMissing, JMissing, body)

DefaultMessage ==
    JStr(<<"This prompt doesn't seem to be in a university/student context.">>)
DefaultHowToFix ==
    JStr(<<"Try rewriting it as a situation involving students, classmates, professors, or campus life.">>)

\* ------------------------------------------------------------ scope gate
\* What client.responses.create produced for the scope call: ok = "error"
\* (the call raised), "unparsable" (output_text is not JSON) or "json"; for
\* "json", isObject tells whether the parsed value is an object and in_scope,
\* reason, how_to_fix are its fields.
NoScopeOutput ==
    [ok |-> "none", isObject |-> FALSE, in_scope |-> JMissing, reason |-> JMissing,
     how_to_fix |-> JMissing]

\* Variant: a failed or unparsable scope call is taken as in scope (breaks C6).
ScopeCheckOrOutFailOpen(out) ==
    IF out.ok # "json" \/ ~out.isObject
    THEN [raised |-> FALSE, in_scope |-> TRUE, payload |-> NoResponse]
    ELSE IF ~Truthy(Get(out.in_scope, JBool(FALSE)))
    THEN [raised |-> FALSE, in_scope |-> FALSE,
          payload |-> Response(422, "out_of_scope", Get(out.reason, DefaultMessage),
                               Get(out.how_to_fix, DefaultHowToFix), NoBody)]
    ELSE [raised |-> FALSE, in_scope |-> TRUE, payload |-> NoResponse]

\* scope_check_or_out after the call returned: raised (an exception leaves the
\* function), else the pair (in_scope, payload).
ScopeCheckOrOut(out) ==
    IF out.ok # "json" \/ ~out.isObject
    THEN [raised |-> TRUE, in_scope |-> FALSE, payload |-> NoResponse]
    ELSE IF ~Truthy(Get(out.in_scope, JBool(FALSE)))
    THEN [raised |-> FALSE, in_scope |-> FALSE,
          payload |-> Response(422, "out_of_scope", Get(out.reason, DefaultMessage),
                               Get(out.how_to_fix, DefaultHowToFix), NoBody)]
    ELSE [raised |-> FALSE, in_scope |-> TRUE, payload |-> NoResponse]

\* --------------------------------------------------------- input handling
\* (payload.get("disagreement") or "")
DisagreementOf(payload) == Or(Get(payload.disagreement, JNull), JStr(<<>>))

\* .strip() exists on str only: any other truthy value raises AttributeError.
StripRaises(payload) == DisagreementOf(payload).t # "str"

\* payload.get("answers") or {}
AnswersOf(payload) == Or(Get(payload.answers, Plain(JNull)), JDict(<<>>))

\* The validation of generate_questions: "ok", or the error of the 400.
QuestionsValidation(disagreement) ==
    IF disagreement = <<>> THEN "Please describe the disagreement." ELSE "ok"

\* Variant: the two checks of reconstruct in the other order (breaks C10).
ReconstructValidationAnswersFirst(disagreement, answers) ==
    IF answers.t # "dict" \/ ~Truthy(answers) THEN "Please answer at least one question."
    ELSE IF disagreement = <<>> THEN "Missing disagreement."
    ELSE "ok"

\* The validation of reconstruct: "ok", or the error of the 400.
ReconstructValidation(disagreement, answers) ==
    IF disagreement = <<>> THEN "Missing disagreement."
    ELSE IF answers.t # "dict" \/ ~Truthy(answers) THEN "Please answer at least one question."
    ELSE "ok"

\* f"- {q}: {a}"
ContextLine(entry) == <<"-", " ">> \o entry.q \o <<":", " ">> \o PyStr(entry.a)

\* Variant: the filter without strip() (breaks C8).
KeepsEntryUnstripped(entry) == PyStr(entry.a) # <<>>

\* [... for q, a in answers.items() if str(a).strip()]
KeepsEntry(entry) == Strip(PyStr(entry.a)) # <<>>

\* context_lines
ContextLines(answers) ==
    LET kept == SelectSeq(answers.e, KeepsEntry)
    IN  Join(<<"\n">>, [i \in 1..Len(kept) |-> ContextLine(kept[i])])

\* One call of client.responses.create: the schema name, the text put into the
\* input and, for the reconstruction, the context put into it.
Call(kind, text, context) == [kind |-> kind, text |-> text, context |-> context]

\* What client.responses.create produced for the second call: ok as for the
\* scope call, body the parsed JSON.
NoFollowOutput == [ok |-> "none", body |-> NoBody]

\* return jsonify(json.loads(resp.output_text)): raised when the call or
\* json.loads raised, else the 200 response carrying the parsed JSON as it is.

JsonifyLoads(out) ==
    IF out.ok # "json" THEN [raised |-> TRUE, response |-> ServerError]
    ELSE [raised |-> FALSE, response |-> Ok(out.body)]

\* ------------------------------------------------------------------ state
VARIABLES
    pc,             \* where each request's handler stands
    op,             \* the endpoint the request was sent to
    payload,        \* request.get_json(force=True)
    disagreement,   \* the handler's local disagreement
    answers,        \* the handler's local answers
    in_scope,       \* the first component of scope_check_or_out's result
    context_lines,  \* the handler's local context_lines
    scope_output,   \* what the scope call produced for this request
    follow_output,  \* what the second call produced for this request
    response,       \* the response sent
    calls,          \* the calls of client.responses.create made for this request
    stages          \* the stages the request has passed, in order

vars ==
    <<pc, op, payload, disagreement, answers, in_scope, context_lines, scope_output,
      follow_output, response, calls, stages>>

NoPayload == [disagreement |-> JMissing, answers |-> Plain(JMissing)]

Init ==
    /\ pc = [r \in Requests |-> "idle"]
    /\ op = [r \in Requests |-> "none"]
    /\ payload = [r \in Requests |-> NoPayload]
    /\ disagreement = [r \in Requests |-> <<>>]
    /\ answers = [r \in Requests |-> JDict(<<>>)]
    /\ in_scope = [r \in Requests |-> FALSE]
    /\ context_lines = [r \in Requests |-> <<>>]
    /\ scope_output = [r \in Requests |-> NoScopeOutput]
    /\ follow_output = [r \in Requests |-> NoFollowOutput]
    /\ response = [r \in Requests |-> NoResponse]
    /\ calls = [r \in Requests |-> <<>>]
    /\ stages = [r \in Requests |-> <<>>]

\* Variant: a call another request has already made is not made again (breaks C9).
IssueCallDeduplicated(r, call) ==
    IF \E r2 \in Requests \ {r} : \E i \in 1..Len(calls[r2]) : calls[r2][i] = call
    THEN calls' = calls
    ELSE calls' = [calls EXCEPT ![r] = Append(@, call)]

\* client.responses.create(...) is entered for request r.
IssueCall(r, call) == calls' = [calls EXCEPT ![r] = Append(@, call)]

\* The handler returns (or an exception leaves it) after passing the stages.
Respond(r, resp, passed) ==
    /\ pc' = [pc EXCEPT ![r] = "responded"]
    /\ response' = [response EXCEPT ![r] = resp]
    /\ stages' = [stages EXCEPT ![r] = @ \o passed \o <<"Responded">>]

\* Variant: the handlers go on whatever the verdict (breaks C7).
DeniedNever(verdict) == FALSE

\* "if not in_scope" of the two handlers.
Denied(verdict) == ~verdict

\* A request arrives at one of the two endpoints.
Receive(r, inputs) ==
    /\ pc[r] = "idle"
    /\ \E in \in inputs :
        /\ op' = [op EXCEPT ![r] = in.op]
        /\ payload' = [payload EXCEPT ![r] = in.payload]
    /\ pc' = [pc EXCEPT ![r] = "received"]
    /\ stages' = [stages EXCEPT ![r] = <<"Received">>]
    /\ UNCHANGED <<disagreement, answers, in_scope, context_lines, scope_output,
                   follow_output, response, calls>>

\* generate_questions up to the call made by scope_check_or_out.
GenerateQuestionsBegin(r) ==
    /\ pc[r] = "received"
    /\ op[r] = "questions"
    /\ IF StripRaises(payload[r])
       THEN /\ Respond(r, ServerError, <<>>)
            /\ UNCHANGED <<disagreement, calls>>
       ELSE LET d == Strip(DisagreementOf(payload[r]).s)
                v == QuestionsValidation(d)
            IN  /\ disagreement' = [disagreement EXCEPT ![r] = d]
                /\ IF v # "ok"
                   THEN /\ Respond(r, BadRequest(v), <<>>)
                        /\ UNCHANGED calls
                   ELSE /\ pc' = [pc EXCEPT ![r] = "scope_wait"]
                        /\ stages' = [stages EXCEPT ![r] = Append(@, "Validated")]
                        /\ IssueCall(r, Call("scope", d, <<>>))
                        /\ UNCHANGED response
    /\ UNCHANGED <<op, payload, answers, in_scope, context_lines, scope_output,
                   follow_output>>

\* reconstruct up to the call made by scope_check_or_out.
ReconstructBegin(r) ==
    /\ pc[r] = "received"
    /\ op[r] = "reconstruct"
    /\ IF StripRaises(payload[r])
       THEN /\ Respond(r, ServerError, <<>>)
            /\ UNCHANGED <<disagreement, answers, calls>>
       ELSE LET d == Strip(DisagreementOf(payload[r]).s)
                a == AnswersOf(payload[r])
                v == ReconstructValidation(d, a)
            IN  /\ disagreement' = [disagreement EXCEPT ![r] = d]
                /\ answers' = [answers EXCEPT ![r] = a]
                /\ IF v # "ok"
                   THEN /\ Respond(r, BadRequest(v), <<>>)
                        /\ UNCHANGED calls
                   ELSE /\ pc' = [pc EXCEPT ![r] = "scope_wait"]
                        /\ stages' = [stages EXCEPT ![r] = Append(@, "Validated")]
                        /\ IssueCall(r, Call("scope", d, <<>>))
                        /\ UNCHANGED response
    /\ UNCHANGED <<op, payload, in_scope, context_lines, scope_output, follow_output>>

\* The scope call of generate_questions produces out: the rest of
\* scope_check_or_out, then the handler up to its own call.
GenerateQuestionsScoped(r, out) ==
    /\ pc[r] = "scope_wait"
    /\ op[r] = "questions"
    /\ scope_output' = [scope_output EXCEPT ![r] = out]
    /\ LET res == ScopeCheckOrOut(out)
       IN  IF res.raised
           THEN /\ Respond(r, ServerError, <<>>)
                /\ UNCHANGED <<in_scope, calls>>
           ELSE /\ in_scope' = [in_scope EXCEPT ![r] = res.in_scope]
                /\ IF Denied(res.in_scope)
                   THEN /\ Respond(r, res.payload, <<"ScopeChecked", "Denied">>)
                        /\ UNCHANGED calls
                   ELSE /\ pc' = [pc EXCEPT ![r] = "follow_wait"]
                        /\ stages' = [stages EXCEPT ![r] = Append(@, "ScopeChecked")]
                        /\ IssueCall(r, Call("questions", disagreement[r], <<>>))
                        /\ UNCHANGED response
    /\ UNCHANGED <<op, payload, disagreement, answers, context_lines, follow_output>>

\* The scope call of reconstruct produces out: the rest of scope_check_or_out,
\* then the handler up to its own call.
ReconstructScoped(r, out) ==
    /\ pc[r] = "scope_wait"
    /\ op[r] = "reconstruct"
    /\ scope_output' = [scope_output EXCEPT ![r] = out]
    /\ LET res == ScopeCheckOrOut(out)
       IN  IF res.raised
           THEN /\ Respond(r, ServerError, <<>>)
                /\ UNCHANGED <<in_scope, context_lines, calls>>
           ELSE /\ in_scope' = [in_scope EXCEPT ![r] = res.in_scope]
                /\ IF Denied(res.in_scope)
                   THEN /\ Respond(r, res.payload, <<"ScopeChecked", "Denied">>)
                        /\ UNCHANGED <<context_lines, calls>>
                   ELSE LET c == ContextLines(answers[r])
                        IN  /\ context_lines' = [context_lines EXCEPT ![r] = c]
                            /\ pc' = [pc EXCEPT ![r] = "follow_wait"]
                            /\ stages' = [stages EXCEPT ![r] = Append(@, "ScopeChecked")]
                            /\ IssueCall(r, Call("reconstruction", disagreement[r], c))
                            /\ UNCHANGED response
    /\ UNCHANGED <<op, payload, disagreement, answers, follow_output>>

\* The question call produces out: return jsonify(json.loads(resp.output_text)).
GenerateQuestionsFinish(r, out) ==
    /\ pc[r] = "follow_wait"
    /\ op[r] = "questions"
    /\ follow_output' = [follow_output EXCEPT ![r] = out]
    /\ LET res == JsonifyLoads(out)
       IN  Respond(r, res.response, IF res.raised THEN <<>> ELSE <<"Processed">>)
    /\ UNCHANGED <<op, payload, disagreement, answers, in_scope, context_lines,
                   scope_output, calls>>

\* The reconstruction call produces out: return jsonify(json.loads(resp.output_text)).
ReconstructFinish(r, out) ==
    /\ pc[r] = "follow_wait"
    /\ op[r] = "reconstruct"
    /\ follow_output' = [follow_output EXCEPT ![r] = out]
    /\ LET res == JsonifyLoads(out)
       IN  Respond(r, res.response, IF res.raised THEN <<>> ELSE <<"Processed">>)
    /\ UNCHANGED <<op, payload, disagreement, answers, in_scope, context_lines,
                   scope_output, calls>>

\* ----------------------------------------------------------------- inputs
Rep(x, count) == [i \in 1..count |-> x]

SomeText == <<"t", "a">>
PaddedText == <<" ", "t", "a", "\t">>

\* Values a client may send as "disagreement".
DisagreementValues ==
    {JMissing, JNull, JStr(<<>>), JStr(<<" ">>), JStr(<<"\t", " ">>), JStr(SomeText),
     JStr(PaddedText), JNum(0), JNum(5), JBool(FALSE), JList(0), JList(1)}

\* Values a client may send as the answer to one question.
AnswerValues == {JStr(<<>>), JStr(<<" ", "\t">>), JStr(<<" ", "n", "o">>), JNum(0)}

\* The mappings of up to MaxAnswers questions to answers, in insertion order.
AnswerMaps ==
    UNION {{[i \in 1..len |-> [q |-> <<"q", Digits[i]>>, a |-> f[i]]] :
               f \in [1..len -> AnswerValues]} : len \in 0..MaxAnswers}

\* Values a client may send as "answers".
AnswersValues ==
    {Plain(JMissing), Plain(JNull), Plain(JStr(<<"a">>)), Plain(JList(0)), Plain(JList(2)),
     Plain(JNum(1))} \union {JDict(e) : e \in AnswerMaps}

Inputs ==
    {[op |-> "questions", payload |-> [disagreement |-> d, answers |-> Plain(JMissing)]] :
        d \in DisagreementValues}
    \union
    {[op |-> "reconstruct", payload |-> [disagreement |-> d, answers |-> a]] :
        d \in DisagreementValues, a \in AnswersValues}

ScopeJson(verdict, reason, fix) ==
    [ok |-> "json", isObject |-> TRUE, in_scope |-> verdict, reason |-> reason,
     how_to_fix |-> fix]

\* Values the parsed scope payload may carry as "in_scope".
InScopeValues ==
    {JMissing, JNull, JBool(TRUE), JBool(FALSE), JStr(<<"f", "a", "l", "s", "e">>),
     JStr(<<>>), JNum(0), JNum(1), JList(0), JList(1)}

SomeReason == JStr(<<"n", "o", "t", " ", "u", "n", "i">>)
SomeFix == JStr(<<"r", "e", "f", "r", "a", "m", "e">>)

Explanations ==
    {<<JMissing, JMissing>>, <<JStr(<<>>), JStr(<<>>)>>, <<SomeReason, SomeFix>>,
     <<SomeReason, JMissing>>, <<JNull, SomeFix>>}

ScopeFailures ==
    {[NoScopeOutput EXCEPT !.ok = "error"], [NoScopeOutput EXCEPT !.ok = "unparsable"],
     [NoScopeOutput EXCEPT !.ok = "json"]}

\* Everything the scope call may produce.
ScopeOutputs ==
    ScopeFailures \union {ScopeJson(v, x[1], x[2]) : v \in InScopeValues, x \in Explanations}

SomeQuestion == <<"W", "h", "y", "?">>
OtherQuestion == <<"W", "h", "o", "?">>

QuestionsBody(qs) == [NoBody EXCEPT !.isObject = TRUE, !.keys = {"questions"}, !.questions = qs]

Hypothesis(title, reasoning) ==
    [keys |-> {"title", "reasoning", "signals_used"}, title |-> title,
     reasoning |-> reasoning, signals_used |-> <<<<"s">>>>]

SomeHypothesis == Hypothesis(<<"T">>, <<"R">>)

ReconstructionKeys ==
    {"hypotheses", "bias_checks", "uncertainty_notes", "user_correction_prompt",
     "one_reflection_prompt"}

ReconstructionBody(hyps, bias, notes, correction, reflection) ==
    [isObject |-> TRUE, keys |-> ReconstructionKeys, questions |-> <<>>,
     hypotheses |-> hyps, bias_checks |-> bias, uncertainty_notes |-> notes,
     user_correction_prompt |-> correction, one_reflection_prompt |-> reflection]

FollowJson(body) == [ok |-> "json", body |-> body]

FollowFailures ==
    {[NoFollowOutput EXCEPT !.ok = "error"], [NoFollowOutput EXCEPT !.ok = "unparsable"]}

\* Everything the question call may produce: failures, objects the questions
\* schema admits, and parseable JSON it does not admit.
QuestionOutputs ==
    FollowFailures
    \union {FollowJson(QuestionsBody(Rep(SomeQuestion, k))) :
               k \in {MinQuestions - 1, MinQuestions, MaxQuestions, MaxQuestions + 1}}
    \union {FollowJson(QuestionsBody(<<SomeQuestion, <<>>, OtherQuestion>>)),
            FollowJson(NoBody),
            FollowJson([NoBody EXCEPT !.isObject = TRUE])}

\* Everything the reconstruction call may produce: failures, objects the
\* output schema admits, and parseable JSON it does not admit.
ReconstructionOutputs ==
    FollowFailures
    \union {FollowJson(ReconstructionBody(Rep(SomeHypothesis, h), Rep(<<"b">>, b),
                                          Rep(<<"u">>, u), <<"c">>, <<"o">>)) :
               h \in {NumHypotheses - 1, NumHypotheses, NumHypotheses + 1},
               b \in {MinBiasChecks, MaxBiasChecks},
               u \in {MinUncertaintyNotes, MaxUncertaintyNotes}}
    \union {FollowJson(ReconstructionBody(Rep(SomeHypothesis, NumHypotheses), Rep(<<"b">>, b),
                                          Rep(<<"u">>, u), <<"c">>, <<"o">>)) :
               b \in {MinBiasChecks - 1, MaxBiasChecks + 1},
               u \in {MinUncertaintyNotes - 1, MaxUncertaintyNotes + 1}}
    \union {FollowJson(ReconstructionBody(Rep(Hypothesis(<<>>, <<"R">>), NumHypotheses),
                                          Rep(<<"b">>, MinBiasChecks),
                                          Rep(<<"u">>, MinUncertaintyNotes), <<"c">>, <<>>)),
            FollowJson(NoBody),
            FollowJson(QuestionsBody(Rep(SomeQuestion, MinQuestions)))}

\* The smaller sets the concurrent specification draws from.
FewInputs ==
    {[op |-> "questions", payload |-> [disagreement |-> d, answers |-> Plain(JMissing)]] :
        d \in {JStr(<<>>), JStr(SomeText), JStr(PaddedText)}}
    \union
    {[op |-> "reconstruct", payload |-> [disagreement |-> JStr(SomeText), answers |-> a]] :
        a \in {Plain(JMissing), JDict(<<[q |-> <<"q", "1">>, a |-> JStr(<<"n", "o">>)]>>)}}

FewScopeOutputs ==
    {[NoScopeOutput EXCEPT !.ok = "error"], [NoScopeOutput EXCEPT !.ok = "unparsable"],
     ScopeJson(JBool(TRUE), JMissing, JMissing),
     ScopeJson(JBool(FALSE), SomeReason, SomeFix)}

FewQuestionOutputs ==
    {[NoFollowOutput EXCEPT !.ok = "error"],
     FollowJson(QuestionsBody(Rep(SomeQuestion, MinQuestions))),
     FollowJson(QuestionsBody(Rep(OtherQuestion, MinQuestions)))}

FewReconstructionOutputs ==
    {[NoFollowOutput EXCEPT !.ok = "error"]}
    \union {FollowJson(ReconstructionBody(Rep(SomeHypothesis, NumHypotheses), Rep(<<"b">>, b),
                                          Rep(<<"u">>, MinUncertaintyNotes), <<"c">>, <<"o">>)) :
               b \in {MinBiasChecks, MaxBiasChecks}}

\* --------------------------------------------------------- specifications
\* The steps of the handling of request r.
Handle(r, inputs, scopeOuts, questionOuts, reconstructionOuts) ==
    \/ Receive(r, inputs)
    \/ GenerateQuestionsBegin(r)
    \/ ReconstructBegin(r)
    \/ \E out \in scopeOuts : GenerateQuestionsScoped(r, out)
    \/ \E out \in scopeOuts : ReconstructScoped(r, out)
    \/ \E out \in questionOuts : GenerateQuestionsFinish(r, out)
    \/ \E out \in reconstructionOuts : ReconstructFinish(r, out)

\* One request, every input and every outcome of the external calls.
Next == Handle(1, Inputs, ScopeOutputs, QuestionOutputs, ReconstructionOutputs)

Spec == Init /\ [][Next]_vars

\* NumRequests requests handled at the same time, in any interleaving.
NextConcurrent ==
    \E r \in Requests :
        Handle(r, FewInputs, FewScopeOutputs, FewQuestionOutputs, FewReconstructionOutputs)

SpecConcurrent == Init /\ [][NextConcurrent]_vars

\* ----------------------------------------------------------------- claims
\* The vocabulary of the claims, stated on what the client sent and on what
\* the external service returned rather than on the handlers' locals.
OnlyWhitespace(chars) == \A i \in 1..Len(chars) : chars[i] \in Whitespace

\* "disagreement" is missing, empty or whitespace-only.
BlankDisagreement(v) == v.t \in {"missing", "null"} \/ (v.t = "str" /\ OnlyWhitespace(v.s))

\* "disagreement" is a string with something in it besides whitespace.
NonBlankDisagreement(v) == v.t = "str" /\ ~OnlyWhitespace(v.s)

\* An answer that is blank after trimming.
BlankAnswer(a) == OnlyWhitespace(PyStr(a))

\* "answers" is empty, is not a mapping, or has only blank values.
NoUsableAnswers(v) ==
    \/ v.t # "dict"
    \/ \A i \in 1..Len(v.e) : BlankAnswer(v.e[i].a)

Handled(r) == pc[r] \notin {"idle", "received"}

Kinds(r) == [i \in 1..Len(calls[r]) |-> calls[r][i].kind]

NonEmptyString(v) == v.t = "str" /\ v.s # <<>>

\* C1: a request to either endpoint whose disagreement is missing, empty or
\* whitespace-only is answered 400 with the endpoint's validation error, and
\* no external call is made for it.
C1_BlankDisagreementRejected ==
    \A r \in Requests :
        (Handled(r) /\ BlankDisagreement(payload[r].disagreement)) =>
            /\ pc[r] = "responded"
            /\ response[r].status = 400
            /\ response[r].error =
                   (IF op[r] = "questions" THEN "Please describe the disagreement."
                    ELSE "Missing disagreement.")
            /\ calls[r] = <<>>

C1_Witness ==
    \E r \in Requests :
        /\ payload[r].disagreement = JStr(<<"\t", " ">>)
        /\ response[r].status = 400

\* C2 (as claimed): a reconstruct request with a non-blank disagreement whose
\* answers is empty, not a mapping, or a mapping of blank values only is
\* answered 400 "Please answer at least one question." with no external call.
C2_UnusableAnswersRejected ==
    \A r \in Requests :
        (/\ Handled(r)
         /\ op[r] = "reconstruct"
         /\ NonBlankDisagreement(payload[r].disagreement)
         /\ NoUsableAnswers(payload[r].answers)) =>
            /\ response[r].status = 400
            /\ response[r].error = "Please answer at least one question."
            /\ calls[r] = <<>>

\* C3 (as claimed): a request the scope check found out of scope is answered
\* 422 with non-empty message and how_to_fix, and no second call is made.
C3_DenialFullyPopulated ==
    \A r \in Requests :
        (\E i \in 1..Len(stages[r]) : stages[r][i] = "Denied") =>
            /\ response[r].status = 422
            /\ NonEmptyString(response[r].message)
            /\ NonEmptyString(response[r].how_to_fix)
            /\ Kinds(r) = <<"scope">>

\* C4 (as claimed): the second call is reached only when the parsed scope
\* payload's in_scope is the boolean true.
C4_FailClosed ==
    \A r \in Requests :
        Len(calls[r]) = 2 => scope_output[r].in_scope = JBool(TRUE)

\* The shapes of section 3 and of the schemas.
QuestionsShape(body) ==
    /\ body.isObject
    /\ body.keys = {"questions"}
    /\ Len(body.questions) \in MinQuestions..MaxQuestions
    /\ \A i \in 1..Len(body.questions) : body.questions[i] # <<>>

ReconstructionShape(body) ==
    /\ body.isObject
    /\ body.keys = ReconstructionKeys
    /\ Len(body.hypotheses) = NumHypotheses
    /\ \A i \in 1..Len(body.hypotheses) :
           /\ body.hypotheses[i].keys = {"title", "reasoning", "signals_used"}
           /\ body.hypotheses[i].title # <<>>
           /\ body.hypotheses[i].reasoning # <<>>
    /\ Len(body.bias_checks) \in MinBiasChecks..MaxBiasChecks
    /\ Len(body.uncertainty_notes) \in MinUncertaintyNotes..MaxUncertaintyNotes
    /\ body.user_correction_prompt # <<>>
    /\ body.one_reflection_prompt # <<>>

\* C5 (as claimed): every 200 response has the shape of its endpoint.
C5_ShapeOnSuccess ==
    \A r \in Requests :
        response[r].status = 200 =>
            IF op[r] = "questions" THEN QuestionsShape(response[r].body)
            ELSE ReconstructionShape(response[r].body)

\* C6: when an external call fails or returns unparsable content the request
\* ends there with an error response: not 200 nor 422, no later call, no
\* second attempt of the failed call, no body made up locally.
C6_FailureEndsRequest ==
    \A r \in Requests :
        /\ scope_output[r].ok \in {"error", "unparsable"} =>
               /\ pc[r] = "responded"
               /\ response[r] = ServerError
               /\ Kinds(r) = <<"scope">>
               /\ ~in_scope[r]
        /\ follow_output[r].ok \in {"error", "unparsable"} =>
               /\ pc[r] = "responded"
               /\ response[r] = ServerError
               /\ Len(calls[r]) = 2
               /\ calls[r][1].kind = "scope"
               /\ calls[r][2].kind # "scope"

C6_Witness ==
    \E r \in Requests :
        /\ scope_output[r].ok = "unparsable"
        /\ response[r].status = 500
        /\ Len(calls[r]) = 1

StageRank(stage) ==
    CASE stage = "Received" -> 1
      [] stage = "Validated" -> 2
      [] stage = "ScopeChecked" -> 3
      [] stage = "Denied" -> 4
      [] stage = "Processed" -> 4
      [] stage = "Responded" -> 5

HasStage(r, stage) == \E i \in 1..Len(stages[r]) : stages[r][i] = stage

\* C7: the stages of a request occur in the order Received, Validated,
\* ScopeChecked, Denied or Processed, Responded; the scope call is the first
\* external call and is made only for a validated request; the second call is
\* made only after an in-scope verdict; at most two calls are made.
C7_StageOrder ==
    \A r \in Requests :
        /\ \A i \in 1..Len(stages[r]) - 1 :
               StageRank(stages[r][i]) < StageRank(stages[r][i + 1])
        /\ stages[r] # <<>> => stages[r][1] = "Received"
        /\ HasStage(r, "ScopeChecked") => HasStage(r, "Validated")
        /\ (HasStage(r, "Denied") \/ HasStage(r, "Processed")) => HasStage(r, "ScopeChecked")
        /\ HasStage(r, "Validated") => NonBlankDisagreement(payload[r].disagreement)
        /\ Kinds(r) \in {<<>>, <<"scope">>, <<"scope", "questions">>,
                         <<"scope", "reconstruction">>}
        /\ calls[r] # <<>> => HasStage(r, "Validated")
        /\ Len(calls[r]) = 2 =>
               /\ HasStage(r, "ScopeChecked")
               /\ ~HasStage(r, "Denied")
               /\ in_scope[r]
               /\ scope_output[r].ok = "json"
        /\ HasStage(r, "Processed") => Len(calls[r]) = 2

C7_Witness ==
    \E r \in Requests :
        /\ stages[r] = <<"Received", "Validated", "ScopeChecked", "Processed", "Responded">>
        /\ Kinds(r) = <<"scope", "reconstruction">>

\* The lines of a text that is the "\n".join of lines without line breaks.
RECURSIVE SplitLines(_, _)
SplitLines(text, line) ==
    IF text = <<>> THEN <<line>>
    ELSE IF Head(text) = "\n" THEN <<line>> \o SplitLines(Tail(text), <<>>)
    ELSE SplitLines(Tail(text), Append(line, Head(text)))

LinesOf(text) == IF text = <<>> THEN <<>> ELSE SplitLines(text, <<>>)

\* The entries of the mapping the client sent whose answer is not blank.
RECURSIVE NonBlankEntries(_)
NonBlankEntries(entries) ==
    IF entries = <<>> THEN <<>>
    ELSE IF BlankAnswer(Head(entries).a) THEN NonBlankEntries(Tail(entries))
    ELSE <<Head(entries)>> \o NonBlankEntries(Tail(entries))

\* C8: the context handed to the reconstruction call has one "- question:
\* answer" line for each entry of answers whose answer is not blank, in the
\* order of the mapping, and no other line.
C8_ContextIsNonBlankAnswers ==
    \A r \in Requests :
        \A i \in 1..Len(calls[r]) :
            calls[r][i].kind = "reconstruction" =>
                LET lines == LinesOf(calls[r][i].context)
                    kept == NonBlankEntries(payload[r].answers.e)
                IN  /\ Len(lines) = Len(kept)
                    /\ \A k \in 1..Len(kept) :
                           lines[k] = <<"-", " ">> \o kept[k].q \o <<":", " ">>
                                          \o PyStr(kept[k].a)

C8_Witness ==
    \E r \in Requests :
        /\ Kinds(r) = <<"scope", "reconstruction">>
        /\ Len(payload[r].answers.e) = 2
        /\ payload[r].answers.e[1].a = JStr(<<" ", "\t">>)
        /\ payload[r].answers.e[2].a = JStr(<<" ", "n", "o">>)
        /\ Len(LinesOf(calls[r][2].context)) = 1

FollowKind(r) == IF op[r] = "questions" THEN "questions" ELSE "reconstruction"

\* C9: under any interleaving each request makes its own calls and is answered
\* from its own input and the results of its own calls: a request waiting for
\* a call has made that call itself, a 422 carries the explanation its own
\* scope call returned, a 200 carries the body its own second call returned,
\* and two requests with the same input and the same results of their own
\* calls get the same response.
C9_RequestsIndependent ==
    /\ \A r \in Requests :
        /\ pc[r] = "scope_wait" => calls[r] = <<Call("scope", disagreement[r], <<>>)>>
        /\ pc[r] = "follow_wait" =>
               /\ Kinds(r) = <<"scope", FollowKind(r)>>
               /\ scope_output[r].ok = "json"
        /\ pc[r] = "responded" =>
               /\ response[r].status \in {400, 422, 200, 500}
               /\ response[r].status = 400 => calls[r] = <<>>
               /\ response[r].status = 422 =>
                      /\ Kinds(r) = <<"scope">>
                      /\ scope_output[r].ok = "json"
                      /\ response[r].message \in {scope_output[r].reason, DefaultMessage}
                      /\ response[r].how_to_fix \in {scope_output[r].how_to_fix, DefaultHowToFix}
               /\ response[r].status = 200 =>
                      /\ Kinds(r) = <<"scope", FollowKind(r)>>
                      /\ scope_output[r].ok = "json"
                      /\ follow_output[r].ok = "json"
                      /\ response[r].body = follow_output[r].body
        /\ \A i \in 1..Len(calls[r]) : calls[r][i].text = disagreement[r]
    /\ \A r1, r2 \in Requests :
        (/\ pc[r1] = "responded"
         /\ pc[r2] = "responded"
         /\ op[r1] = op[r2]
         /\ payload[r1] = payload[r2]
         /\ scope_output[r1] = scope_output[r2]
         /\ follow_output[r1] = follow_output[r2]) =>
            /\ response[r1] = response[r2]
            /\ calls[r1] = calls[r2]

C9_Witness ==
    \E r1, r2 \in Requests :
        /\ r1 # r2
        /\ op[r1] = op[r2]
        /\ payload[r1] = payload[r2]
        /\ pc[r1] = "follow_wait"
        /\ pc[r2] = "follow_wait"
        /\ Len(calls[r1]) = 2
        /\ Len(calls[r2]) = 2

\* C10: in reconstruct the disagreement check comes first: a blank
\* disagreement is answered "Missing disagreement." whatever answers is, and
\* "Please answer at least one question." is returned only for a non-blank
\* disagreement.
C10_DisagreementCheckedFirst ==
    \A r \in Requests :
        (Handled(r) /\ op[r] = "reconstruct") =>
            /\ BlankDisagreement(payload[r].disagreement) =>
                   /\ response[r].status = 400
                   /\ response[r].error = "Missing disagreement."
            /\ response[r].error = "Please answer at least one question." =>
                   NonBlankDisagreement(payload[r].disagreement)

C10_Witness ==
    \E r \in Requests :
        /\ op[r] = "reconstruct"
        /\ payload[r].disagreement = JStr(<<" ">>)
        /\ payload[r].answers.t = "list"
        /\ response[r].error = "Missing disagreement."

====
